---- MODULE Spec2Model ----
(***************************************************************************)
(* A model of src/VideoTranscriber.py: the VideoTranscriber client (its    *)
(* configuration setters, the bounded recursive retry of transcribe_audio  *)
(* and translate_text, save_text, process_video) and the batch loop of the *)
(* __main__ block.                                                         *)
(*                                                                         *)
(* Strings are sequences of tokens (words, or the placeholders of a prompt *)
(* template); substring and prefix tests are computed on the tokens.       *)
(* Durations are integers in units of 1/JitterScale second.                *)
(***************************************************************************)
EXTENDS Integers, Sequences, FiniteSets, TLC

\* ------------------------------------------------------------------ bounds

\* Resolution of the random jitter: random.uniform(0, 5) takes the values
\* j / JitterScale, 0 <= j < 5 * JitterScale.
JitterScale == 4

\* Temporary audio files that extract_audio may leave behind before the
\* caller of the client stops calling process_video.
MaxLeaked == 1

\* Number of video files the batch loop discovers.
MaxVideos == 2

\* ------------------------------------------------------- program constants

\* `if intento > 10` (transcribe_audio, translate_text)
MaxIntento == 10

\* `retry_after = 60`
DefaultRetryAfter == 60

\* `int(e.response.headers['retry-after']) + 2`
HintMargin == 2

\* `retry_after = 200`
UnparseableRetryAfter == 200

\* `random.uniform(0, 5)`
JitterMax == 5

\* ------------------------------------------------------------------ strings

\* needle occurs in hay as a contiguous run of tokens (Python's `in` on str)
Contains(hay, needle) ==
    \E i \in 0..(Len(hay) - Len(needle)) :
        \A k \in 1..Len(needle) : hay[i + k] = needle[k]

\* Python's str.startswith
StartsWith(s, prefix) ==
    /\ Len(prefix) <= Len(s)
    /\ \A k \in 1..Len(prefix) : s[k] = prefix[k]

\* the return value of transcribe_audio once intento > 10
TranscribeSentinel == <<"FALLO", "TRANSCRIBIENDO", "EN CANTIDAD DE INTENTOS">>

\* the return value of translate_text once intento > 10
TranslateSentinel == <<"FALLO", "TRADUCIENDO", "EN CANTIDAD DE INTENTOS">>

\* `"FALLO TRANSCRIBIENDO" in transcription` (process_video)
TranscribeMarker == <<"FALLO", "TRANSCRIBIENDO">>

\* `.startswith('FALLO')` (batch loop)
BatchMarker == <<"FALLO">>

\* Texts the remote speech-to-text service may answer with: an empty
\* transcript, an ordinary one, one that begins with the word FALLO, and one
\* in which the words FALLO TRANSCRIBIENDO are spoken.
TranscriptTexts ==
    { <<>>,
      <<"hello", "world">>,
      <<"FALLO", "de", "red">>,
      <<"dijo", "FALLO", "TRANSCRIBIENDO">> }

\* Texts the remote translation service may answer with.
TranslationTexts == { <<"hola", "mundo">>, <<"adios">> }

\* ---------------------------------------------------------- prompt templates

\* Template tokens: "{text}" and "{name}" are replacement fields, "{{text}}"
\* is the escaped (literal) form, whose characters contain "{text}", and
\* everything else is literal text.
TextField == "{text}"
OtherField == "{name}"
EscapedText == "{{text}}"

\* `self.translation_prompt = """ ... {text} ... """` (__init__)
DefaultPrompt == <<"Traduce", TextField, "Traduccion">>

\* Templates a caller passes to set_translation_prompt.
Prompts ==
    { <<"Translate">>,
      <<"Translate", TextField>>,
      <<TextField, TextField>>,
      <<TextField, OtherField>>,
      <<EscapedText>> }

\* `"{text}" in prompt`: a character-level substring test, which the field
\* itself and its escaped form both satisfy
HasTextMarker(prompt) ==
    \E k \in 1..Len(prompt) : prompt[k] \in {TextField, EscapedText}

\* number of replacement fields for the source text in a template
TextFieldCount(prompt) ==
    Cardinality({k \in 1..Len(prompt) : prompt[k] = TextField})

RECURSIVE Render(_, _)
Render(prompt, text) ==
    IF prompt = <<>> THEN <<>>
    ELSE LET tok == Head(prompt) IN
         (IF tok = TextField THEN text
          ELSE IF tok = EscapedText THEN <<"{text}">>
          ELSE <<tok>>) \o Render(Tail(prompt), text)

\* `self.translation_prompt.format(text=text)`: a field other than text
\* raises KeyError; otherwise every {text} is replaced and {{text}} becomes
\* the literal characters {text}
Format(prompt, text) ==
    IF \E k \in 1..Len(prompt) : prompt[k] = OtherField
    THEN [ok |-> FALSE, value |-> <<>>]
    ELSE [ok |-> TRUE, value |-> Render(prompt, text)]

\* ------------------------------------------------------------- retry policy

NoHint == [kind |-> "none", h |-> 0]
BadHint == [kind |-> "bad", h |-> 0]
IntHint(n) == [kind |-> "int", h |-> n]

\* Values of a retry-after header that parse as an integer.
HintValues == {-9, -4, 0, 30}

\* Error signals of a failed remote call: no retry-after header, a header
\* that int() parses, a header that int() rejects.
Errors == {NoHint, BadHint} \cup {IntHint(n) : n \in HintValues}

\* `jitter = random.uniform(0, 5)`, in units of 1/JitterScale
Jitters == 0..(JitterMax * JitterScale - 1)

\* A faulty retry_after that takes the hint as it is, without the 2 seconds.
\* C2 must fail with it.
RetryAfterNoMargin(e) ==
    IF e.kind = "none" THEN DefaultRetryAfter
    ELSE IF e.kind = "int" THEN e.h
    ELSE UnparseableRetryAfter

\* `retry_after` of _get_retry_time, in seconds
RetryAfter(e) ==
    IF e.kind = "none" THEN DefaultRetryAfter
    ELSE IF e.kind = "int" THEN e.h + HintMargin
    ELSE UnparseableRetryAfter

\* `wait_time = retry_after + jitter`, in units of 1/JitterScale
GetRetryTime(e, jitter) == RetryAfter(e) * JitterScale + jitter

\* time.sleep raises ValueError for a negative duration
SleepRaises(wait) == wait < 0

\* ------------------------------------------------------------------- state

\* `whisper_model='whisper-large-v3'`, `translation_model="openai/gpt-oss-120b"`
DefaultWhisperModel == "whisper-large-v3"
DefaultTranslationModel == "openai/gpt-oss-120b"

\* Model identifiers a caller passes to the setters.
WhisperModels == {"whisper-large-v3", "whisper-large-v3-turbo"}
TranslationModels == {"openai/gpt-oss-120b", "openai/gpt-oss-20b"}

\* A video path; Path(video_path).stem is its stem field.
VideoPath(n) == [stem |-> n, ext |-> ".mp4"]
Stem(video_path) == video_path.stem

\* Video files on disk (os.path.exists); VideoPath(0) is a path with no file.
ExistingVideos == {VideoPath(n) : n \in 1..MaxVideos}
MissingVideo == VideoPath(0)

\* results_path: None is "", which `save and results_path` treats alike
NoPath == ""
ResultsDir == "out"

\* An optional text: <<>> is None (or no file), <<t>> holds the text t.
None == <<>>
Some(t) == <<t>>

\* os.path.join(results_path, f"{video_filename}_transcription.txt") and
\* ..._translation.txt
ResultFile(dir, stem, kind) == [dir |-> dir, stem |-> stem, kind |-> kind]
FileNames ==
    {ResultFile(ResultsDir, n, k) :
        n \in 0..MaxVideos, k \in {"transcription", "translation"}}

\* What process_video and the direct calls return.
ReturnNone == [ret |-> "None"]
ReturnText(t) == [ret |-> "str", text |-> t]
ReturnDict(t, tr, vp) ==
    [ret |-> "dict", transcription |-> t, translation |-> tr, video_path |-> vp]

VARIABLES
    \* the client's configuration
    whisper_model, translation_model, translator_client, translation_prompt,
    \* the filesystem: result directories, result files, temporary audio files
    dirs, files, temp_files,
    \* the call in progress (or the last one): the public method called, the
    \* position in it, its arguments and locals
    op, pc, video_path, results_path, save, return_results,
    audio_path, transcription, text, translation, intento,
    \* what the call returned or raised, and what it logged
    result, raised, log,
    \* observation of the call: remote invocations and failed attempts of the
    \* retry chain in progress, and the methods the call has entered
    calls, fails, invoked,
    \* the batch loop of __main__
    bpc, video_files, save_files, idx, processed_count, error_count,
    \* the last evaluation of _get_retry_time: its argument and its result
    last_error, wait_time

config == <<whisper_model, translation_model, translator_client, translation_prompt>>
fs == <<dirs, files, temp_files>>
call == <<op, pc, video_path, results_path, save, return_results,
          audio_path, transcription, text, translation, intento,
          result, raised, log, calls, fails, invoked>>
batch == <<bpc, video_files, save_files, idx, processed_count, error_count>>
retry == <<last_error, wait_time>>
vars == <<config, fs, call, batch, retry>>

\* __init__: the default configuration; nothing called yet
InitClient ==
    /\ whisper_model = DefaultWhisperModel
    /\ translation_model = DefaultTranslationModel
    /\ translator_client = DefaultTranslationModel
    /\ translation_prompt = DefaultPrompt
    /\ op = "none" /\ pc = "idle"
    /\ video_path = MissingVideo /\ results_path = NoPath
    /\ save = FALSE /\ return_results = FALSE
    /\ audio_path = 0 /\ transcription = <<>> /\ text = <<>> /\ translation = <<>>
    /\ intento = 0 /\ result = ReturnNone /\ raised = "" /\ log = {}
    /\ calls = 0 /\ fails = 0 /\ invoked = {}
    /\ files = [f \in FileNames |-> None]
    /\ temp_files = {}
    /\ last_error = NoHint /\ wait_time = 0

\* A fresh call frame: the locals of a public method about to run; arg is its
\* text argument, if it has one, and exc what it raises ("": nothing).
Enter(method, arg, exc) ==
    /\ op' = method
    /\ audio_path' = 0 /\ transcription' = <<>> /\ text' = arg /\ translation' = <<>>
    /\ intento' = 0 /\ calls' = 0 /\ fails' = 0
    /\ result' = ReturnNone /\ raised' = exc /\ log' = {}

NoArgs ==
    /\ video_path' = MissingVideo /\ results_path' = NoPath
    /\ save' = FALSE /\ return_results' = FALSE

\* ------------------------------------------------------------------ setters

\* set_transcription_model
SetTranscriptionModel(m) ==
    /\ pc = "idle" /\ bpc = "off"
    /\ Enter("set_transcription_model", <<>>, "") /\ NoArgs
    /\ whisper_model' = m
    /\ pc' = "idle" /\ invoked' = {}
    /\ UNCHANGED <<translation_model, translator_client, translation_prompt>>
    /\ UNCHANGED <<fs, batch, retry>>

\* set_translation_model: the translator client is built again for the model
SetTranslationModel(m) ==
    /\ pc = "idle" /\ bpc = "off"
    /\ Enter("set_translation_model", <<>>, "") /\ NoArgs
    /\ translation_model' = m
    /\ translator_client' = m
    /\ pc' = "idle" /\ invoked' = {}
    /\ UNCHANGED <<whisper_model, translation_prompt>>
    /\ UNCHANGED <<fs, batch, retry>>

\* A faulty validation that only asks for a template that is not empty. C3
\* must fail with it.
PromptAcceptedIfNotEmpty(prompt) == Len(prompt) > 0

\* `if "{text}" not in prompt: raise ValueError(...)`
PromptAccepted(prompt) == HasTextMarker(prompt)

\* set_translation_prompt
SetTranslationPrompt(prompt) ==
    /\ pc = "idle" /\ bpc = "off"
    /\ NoArgs
    /\ pc' = "idle" /\ invoked' = {}
    /\ IF PromptAccepted(prompt)
       THEN /\ translation_prompt' = prompt
            /\ Enter("set_translation_prompt", prompt, "")
       ELSE /\ UNCHANGED translation_prompt
            /\ Enter("set_translation_prompt", prompt, "ValueError")
    /\ UNCHANGED <<whisper_model, translation_model, translator_client>>
    /\ UNCHANGED <<fs, batch, retry>>

\* ------------------------------------------------------------- the pipeline

argv == <<op, video_path, results_path, save, return_results, audio_path>>

\* `save and results_path`
Persisting(sv, rp) == sv /\ rp # NoPath

\* os.makedirs(results_path, exist_ok=True): creating a missing directory may
\* fail (permissions, a read-only disk); an existing one is left as it is
MakedirsOutcomes(d, rp) == IF rp \in d THEN {"ok"} ELSE {"ok", "fail"}

\* tempfile.NamedTemporaryFile(delete=False, suffix=".wav"): a name not in use
FreshTemp(tf) ==
    CHOOSE n \in 1..(Cardinality(tf) + 1) :
        n \notin tf /\ \A m \in 1..(n - 1) : m \in tf

\* What can happen in extract_audio: VideoFileClip cannot open the container;
\* the container has no audio track (video.audio is None) or the audio cannot
\* be written; the audio is written.
ExtractOutcomes == {"unreadable", "no_audio", "ok"}

\* extract_audio: the temporary file is created before the audio is written,
\* and the `except` logs and re-raises without removing it; the path (0: none)
\* reaches the caller only when the method returns
ExtractAudio(tf, outcome) ==
    IF outcome = "unreadable"
    THEN [temp_files |-> tf, audio_path |-> 0, raised |-> TRUE]
    ELSE [temp_files |-> tf \cup {FreshTemp(tf)},
          audio_path |-> IF outcome = "ok" THEN FreshTemp(tf) ELSE 0,
          raised |-> outcome # "ok"]

\* A faulty process_video without the finally block. C7 must fail with it.
CleanupSkipped(tf, path) == tf

\* `finally: if os.path.exists(audio_path): os.unlink(audio_path)`
Cleanup(tf, path) == tf \ {path}

\* A faulty process_video that does not test the path. C4 must fail with it.
VideoExistsUnchecked(vp) == TRUE

\* `os.path.exists(video_path)`
VideoExists(vp) == vp \in ExistingVideos

\* process_video up to the call of transcribe_audio: the existence check,
\* os.makedirs, extract_audio
ProcessVideo(vp, rp, sv, rr) ==
    /\ pc = "idle"
    /\ op' = "process_video"
    /\ video_path' = vp /\ results_path' = rp /\ save' = sv /\ return_results' = rr
    /\ transcription' = <<>> /\ text' = <<>> /\ translation' = <<>>
    /\ intento' = 0 /\ calls' = 0 /\ fails' = 0 /\ result' = ReturnNone
    /\ UNCHANGED files
    /\ IF ~VideoExists(vp)
       THEN /\ raised' = "FileNotFoundError" /\ log' = {"not_found"}
            /\ pc' = "idle" /\ invoked' = {} /\ audio_path' = 0
            /\ UNCHANGED <<dirs, temp_files>>
       ELSE IF Persisting(sv, rp)
            THEN \E mk \in MakedirsOutcomes(dirs, rp) :
                   IF mk = "fail"
                   THEN /\ raised' = "OSError" /\ log' = {}
                        /\ pc' = "idle" /\ invoked' = {} /\ audio_path' = 0
                        /\ UNCHANGED <<dirs, temp_files>>
                   ELSE /\ dirs' = dirs \cup {rp}
                        /\ \E o \in ExtractOutcomes :
                             LET x == ExtractAudio(temp_files, o) IN
                             /\ temp_files' = x.temp_files
                             /\ audio_path' = x.audio_path
                             /\ invoked' = {"extract_audio"}
                             /\ IF x.raised
                                THEN /\ raised' = "ExtractionError"
                                     /\ log' = {"extract_error", "pv_error"}
                                     /\ pc' = "idle"
                                ELSE /\ raised' = "" /\ log' = {}
                                     /\ pc' = "transcribe"
            ELSE /\ UNCHANGED dirs
                 /\ \E o \in ExtractOutcomes :
                      LET x == ExtractAudio(temp_files, o) IN
                      /\ temp_files' = x.temp_files
                      /\ audio_path' = x.audio_path
                      /\ invoked' = {"extract_audio"}
                      /\ IF x.raised
                         THEN /\ raised' = "ExtractionError"
                              /\ log' = {"extract_error", "pv_error"}
                              /\ pc' = "idle"
                         ELSE /\ raised' = "" /\ log' = {}
                              /\ pc' = "transcribe"

\* `if intento > 10: return <sentinel>` (transcribe_audio, translate_text)
Exhausted(n) == n > MaxIntento

\* `return self.transcribe_audio(audio_path, intento + 1)` and
\* `return self.translate_text(text, intento + 1)`
NextIntento(n) == n + 1

\* A faulty test that looks for the marker of the translation sentinel. C8
\* must fail with it.
TranscriptionFailedWrongMarker(t) == Contains(t, <<"FALLO", "TRADUCIENDO">>)

\* `if "FALLO TRANSCRIBIENDO" in transcription`
TranscriptionFailed(t) == Contains(t, TranscribeMarker)

\* The dictionary process_video returns when the transcription failed.
ShortCircuitResult(t, vp, rr) ==
    IF rr THEN ReturnDict(t, None, vp) ELSE ReturnNone

\* transcribe_audio returns t, after c remote invocations and f failures. A
\* direct caller gets t. process_video tests t for the failure marker: with it,
\* it returns at once (through the finally); without it, it calls
\* translate_text(transcription), whose attempt counter starts at 0.
TranscribeReturn(t, c, f) ==
    /\ raised' = ""
    /\ UNCHANGED translation
    /\ IF op = "transcribe_audio"
       THEN /\ result' = ReturnText(t) /\ pc' = "idle"
            /\ calls' = c /\ fails' = f
            /\ UNCHANGED <<transcription, text, intento, log, invoked, temp_files>>
       ELSE /\ transcription' = t
            /\ IF TranscriptionFailed(t)
               THEN /\ result' = ShortCircuitResult(t, video_path, return_results)
                    /\ log' = log \cup {"transcription_error"}
                    /\ temp_files' = Cleanup(temp_files, audio_path)
                    /\ pc' = "idle"
                    /\ calls' = c /\ fails' = f
                    /\ UNCHANGED <<text, intento, invoked>>
               ELSE /\ pc' = "translate"
                    /\ text' = t
                    /\ intento' = 0 /\ calls' = 0 /\ fails' = 0
                    /\ invoked' = invoked \cup {"translate_text"}
                    /\ UNCHANGED <<result, log, temp_files>>

\* The `except` block of transcribe_audio and translate_text after a failure
\* with error signal e: sleep for _get_retry_time(e), then call again with
\* intento + 1. time.sleep raises for a negative duration; the exception
\* leaves the method, and process_video passes it on through its finally and
\* its own `except`.
Except(e, j, c) ==
    /\ calls' = c /\ fails' = fails + 1
    /\ UNCHANGED <<transcription, text, translation, result, invoked>>
    /\ IF SleepRaises(GetRetryTime(e, j))
       THEN /\ raised' = "ValueError" /\ pc' = "idle"
            /\ UNCHANGED intento
            /\ IF op = "process_video"
               THEN /\ temp_files' = Cleanup(temp_files, audio_path)
                    /\ log' = log \cup {"pv_error"}
               ELSE UNCHANGED <<temp_files, log>>
       ELSE /\ intento' = NextIntento(intento)
            /\ UNCHANGED <<pc, raised, log, temp_files>>

\* One activation of transcribe_audio(audio_path, intento): the sentinel when
\* the attempts are used up; otherwise the file is opened and sent, and the
\* service answers or fails. A file that cannot be opened fails inside the
\* `try` as well, with an error that carries no response.
TranscribeAudio ==
    /\ pc = "transcribe"
    /\ UNCHANGED <<argv, dirs, files, config, batch, retry>>
    /\ IF Exhausted(intento)
       THEN TranscribeReturn(TranscribeSentinel, calls, fails)
       ELSE IF audio_path \in temp_files
            THEN \/ \E t \in TranscriptTexts : TranscribeReturn(t, calls + 1, fails)
                 \/ \E e \in Errors, j \in Jitters : Except(e, j, calls + 1)
            ELSE \E j \in Jitters : Except(NoHint, j, calls)

\* translate_text returns t: to a direct caller, or to process_video, which
\* goes on to save.
TranslateReturn(t, c) ==
    /\ raised' = "" /\ calls' = c
    /\ UNCHANGED <<transcription, text, intento, fails, log, invoked, temp_files>>
    /\ IF op = "translate_text"
       THEN /\ result' = ReturnText(t) /\ pc' = "idle"
            /\ UNCHANGED translation
       ELSE /\ translation' = Some(t) /\ pc' = "persist"
            /\ UNCHANGED result

\* One activation of translate_text(text, intento): the sentinel when the
\* attempts are used up; otherwise the prompt is rendered and sent. A template
\* that does not render fails inside the `try`, before the remote call, with
\* an error that carries no response.
TranslateText ==
    /\ pc = "translate"
    /\ UNCHANGED <<argv, dirs, files, config, batch, retry>>
    /\ IF Exhausted(intento)
       THEN TranslateReturn(TranslateSentinel, calls)
       ELSE IF Format(translation_prompt, text).ok
            THEN \/ \E t \in TranslationTexts : TranslateReturn(t, calls + 1)
                 \/ \E e \in Errors, j \in Jitters : Except(e, j, calls + 1)
            ELSE \E j \in Jitters : Except(NoHint, j, calls)

\* What can happen in save_text: the text is written, replacing what the file
\* held; or open() fails (permissions, a read-only disk) and the file is as
\* before.
WriteOutcomes == {"ok", "open_fail"}

\* A faulty save_text that opens the file for exclusive creation: a file that
\* exists keeps its content. C5 must fail with it.
SaveTextKeepsExisting(f, t, name, outcome) ==
    [files |-> IF outcome = "ok" /\ f[name] = None
               THEN [f EXCEPT ![name] = Some(t)]
               ELSE f,
     logged |-> outcome # "ok",
     raised |-> FALSE]

\* save_text: the `except` logs the error and does not raise it again
SaveText(f, t, name, outcome) ==
    [files |-> IF outcome = "ok" THEN [f EXCEPT ![name] = Some(t)] ELSE f,
     logged |-> outcome # "ok",
     raised |-> FALSE]

\* The dictionary process_video returns after translating.
FullResult(t, tr, vp, rr) ==
    IF rr THEN ReturnDict(t, tr, vp) ELSE ReturnNone

\* process_video after translate_text: the two save_text calls when saving is
\* asked for, the success log line, the return value, the finally
Persist ==
    /\ pc = "persist"
    /\ UNCHANGED <<argv, dirs, config, batch, retry>>
    /\ UNCHANGED <<transcription, text, translation, intento, calls, fails>>
    /\ temp_files' = Cleanup(temp_files, audio_path)
    /\ pc' = "idle"
    /\ IF Persisting(save, results_path)
       THEN \E o1 \in WriteOutcomes, o2 \in WriteOutcomes :
              LET s1 == SaveText(files, transcription,
                                 ResultFile(results_path, Stem(video_path), "transcription"), o1)
                  s2 == SaveText(s1.files, translation[1],
                                 ResultFile(results_path, Stem(video_path), "translation"), o2)
              IN
              /\ invoked' = invoked \cup {"save_text"}
              /\ IF s1.raised
                 THEN /\ files' = s1.files
                      /\ raised' = "OSError" /\ UNCHANGED result
                      /\ log' = log \cup {"save_error", "pv_error"}
                 ELSE IF s2.raised
                 THEN /\ files' = s2.files
                      /\ raised' = "OSError" /\ UNCHANGED result
                      /\ log' = log \cup {"save_error", "pv_error"}
                 ELSE /\ files' = s2.files
                      /\ raised' = ""
                      /\ result' = FullResult(transcription, translation, video_path, return_results)
                      /\ log' = log \cup {"processed_ok"}
                                    \cup (IF s1.logged \/ s2.logged THEN {"save_error"} ELSE {})
       ELSE /\ UNCHANGED <<files, invoked>>
            /\ raised' = ""
            /\ result' = FullResult(transcription, translation, video_path, return_results)
            /\ log' = log \cup {"processed_ok"}

\* ------------------------------------------------- calls by a library caller

\* A caller of the client calls process_video.
CallProcessVideo ==
    /\ bpc = "off"
    /\ Cardinality(temp_files) < MaxLeaked
    /\ \E vp \in {MissingVideo, VideoPath(1)}, rp \in {NoPath, ResultsDir},
          sv \in BOOLEAN, rr \in BOOLEAN :
         ProcessVideo(vp, rp, sv, rr)
    /\ UNCHANGED <<config, batch, retry>>

\* A caller of the client calls transcribe_audio(audio_path), intento = 0,
\* with the path of an audio file that exists or (path 0) does not.
CallTranscribeAudio ==
    /\ pc = "idle" /\ bpc = "off"
    /\ \E ap \in temp_files \cup {0} : audio_path' = ap
    /\ op' = "transcribe_audio" /\ pc' = "transcribe"
    /\ NoArgs
    /\ transcription' = <<>> /\ text' = <<>> /\ translation' = <<>>
    /\ intento' = 0 /\ calls' = 0 /\ fails' = 0
    /\ result' = ReturnNone /\ raised' = "" /\ log' = {}
    /\ invoked' = {}
    /\ UNCHANGED <<config, fs, batch, retry>>

\* A caller of the client calls translate_text(text), intento = 0.
CallTranslateText ==
    /\ pc = "idle" /\ bpc = "off"
    /\ \E t \in TranscriptTexts : text' = t
    /\ op' = "translate_text" /\ pc' = "translate"
    /\ NoArgs
    /\ audio_path' = 0 /\ transcription' = <<>> /\ translation' = <<>>
    /\ intento' = 0 /\ calls' = 0 /\ fails' = 0
    /\ result' = ReturnNone /\ raised' = "" /\ log' = {}
    /\ invoked' = {}
    /\ UNCHANGED <<config, fs, batch, retry>>

\* Templates the caller of the pipeline sets.
PipelinePrompts == { <<"Translate">>, <<"Translate", TextField>>, <<TextField, OtherField>> }

CallSetTranslationPrompt == \E p \in PipelinePrompts : SetTranslationPrompt(p)

BatchOff ==
    /\ bpc = "off" /\ video_files = <<>> /\ save_files = FALSE
    /\ idx = 0 /\ processed_count = 0 /\ error_count = 0

Init == InitClient /\ dirs = {} /\ BatchOff

Next ==
    \/ CallSetTranslationPrompt
    \/ CallProcessVideo
    \/ CallTranscribeAudio
    \/ CallTranslateText
    \/ TranscribeAudio
    \/ TranslateText
    \/ Persist

Spec == Init /\ [][Next]_vars

\* ------------------------------------------------- the client's configuration

CallSetTranscriptionModel == \E m \in WhisperModels : SetTranscriptionModel(m)

CallSetTranslationModel == \E m \in TranslationModels : SetTranslationModel(m)

CallSetAnyTranslationPrompt == \E p \in Prompts : SetTranslationPrompt(p)

\* A caller configures the client and translates texts with it.
ConfigNext ==
    \/ CallSetTranscriptionModel
    \/ CallSetTranslationModel
    \/ CallSetAnyTranslationPrompt
    \/ CallTranslateText
    \/ TranslateText

ConfigSpec == Init /\ [][ConfigNext]_vars

\* ------------------------------------------------------------ the retry time

\* _get_retry_time(e) is evaluated for an error signal e and a draw of the
\* random jitter.
CallGetRetryTime ==
    /\ pc = "idle" /\ bpc = "off"
    /\ \E e \in Errors, j \in Jitters :
         /\ last_error' = e
         /\ wait_time' = GetRetryTime(e, j)
    /\ op' = "_get_retry_time"
    /\ UNCHANGED <<pc, video_path, results_path, save, return_results,
                   audio_path, transcription, text, translation, intento,
                   result, raised, log, calls, fails, invoked>>
    /\ UNCHANGED <<config, fs, batch>>

RetryNext == CallGetRetryTime

RetrySpec == Init /\ [][RetryNext]_vars

\* ------------------------------------------------------------ the batch loop

\* The `try` body of the loop after process_video returned resultado, and its
\* `except Exception`: the video counts as processed when resultado and its
\* transcription are truthy and the transcription does not start with FALLO;
\* the previews take len(resultado['translation']), a TypeError for None,
\* which the `except` counts as an error like any exception of process_video.
BatchOutcome(res, exc) ==
    IF exc # "" THEN "error"
    ELSE IF /\ res.ret = "dict"
            /\ res.transcription # <<>>
            /\ ~StartsWith(res.transcription, BatchMarker)
         THEN (IF res.translation = None THEN "error" ELSE "processed")
         ELSE "error"

\* `for i, video_file in enumerate(video_files, 1)`: the call of process_video
\* for the next video, with return_results=True
BatchProcessVideo ==
    /\ bpc = "loop"
    /\ idx < Len(video_files)
    /\ ProcessVideo(video_files[idx + 1],
                    IF save_files THEN ResultsDir ELSE NoPath,
                    save_files, TRUE)
    /\ bpc' = "wait"
    /\ UNCHANGED <<video_files, save_files, idx, processed_count, error_count>>
    /\ UNCHANGED <<config, retry>>

\* A faulty loop whose `except` leaves the loop: the first exception of
\* process_video ends the batch. C6 must fail with it.
BatchCountAbort ==
    /\ bpc = "wait" /\ pc = "idle"
    /\ IF BatchOutcome(result, raised) = "processed"
       THEN processed_count' = processed_count + 1 /\ UNCHANGED error_count
       ELSE error_count' = error_count + 1 /\ UNCHANGED processed_count
    /\ idx' = idx + 1
    /\ bpc' = (IF raised # "" THEN "summary" ELSE "loop")
    /\ Enter("none", <<>>, "") /\ NoArgs
    /\ pc' = "idle" /\ invoked' = {}
    /\ UNCHANGED <<video_files, save_files>>
    /\ UNCHANGED <<config, fs, retry>>

\* The rest of the loop body once process_video has returned or raised. The
\* iteration ends here: the frame of the call is gone, and resultado is not
\* read again before the next call assigns it.
BatchCount ==
    /\ bpc = "wait" /\ pc = "idle"
    /\ IF BatchOutcome(result, raised) = "processed"
       THEN processed_count' = processed_count + 1 /\ UNCHANGED error_count
       ELSE error_count' = error_count + 1 /\ UNCHANGED processed_count
    /\ idx' = idx + 1
    /\ bpc' = "loop"
    /\ Enter("none", <<>>, "") /\ NoArgs
    /\ pc' = "idle" /\ invoked' = {}
    /\ UNCHANGED <<video_files, save_files>>
    /\ UNCHANGED <<config, fs, retry>>

\* The summary after the loop.
BatchSummary ==
    /\ bpc = "loop"
    /\ idx = Len(video_files)
    /\ bpc' = "summary"
    /\ UNCHANGED <<video_files, save_files, idx, processed_count, error_count>>
    /\ UNCHANGED <<config, fs, call, retry>>

\* __main__ up to the loop: at least one video was found; with a results
\* directory the files are saved and the directory has been created.
BatchInit ==
    /\ InitClient
    /\ bpc = "loop"
    /\ \E n \in 1..MaxVideos : video_files = [k \in 1..n |-> VideoPath(k)]
    /\ save_files \in BOOLEAN
    /\ dirs = (IF save_files THEN {ResultsDir} ELSE {})
    /\ idx = 0 /\ processed_count = 0 /\ error_count = 0

BatchNext ==
    \/ BatchProcessVideo
    \/ TranscribeAudio
    \/ TranslateText
    \/ Persist
    \/ BatchCount
    \/ BatchSummary

\* The program is one sequential thread: whatever step is next is taken.
BatchSpec == BatchInit /\ [][BatchNext]_vars /\ WF_vars(BatchNext)

\* ------------------------------------------------------------------ claims

\* A retry chain (transcribe_audio or translate_text and its recursive calls)
\* is in progress.
InChain == pc \in {"transcribe", "translate"}

\* C1: in every top-level call of transcribe_audio or translate_text the
\* remote call is invoked at most 11 times; the attempt counter equals the
\* number of failures so far (it grows by one per failure, from 0); and a call
\* whose 11 invocations all failed has returned its sentinel string.
C1_RetryBoundAndSentinel ==
    /\ calls <= 11
    /\ (InChain => intento = fails)
    /\ (/\ pc = "idle" /\ op = "transcribe_audio" /\ calls = 11 /\ fails = 11
        => result = ReturnText(TranscribeSentinel))
    /\ (/\ pc = "idle" /\ op = "translate_text" /\ calls = 11 /\ fails = 11
        => result = ReturnText(TranslateSentinel))

C3_RejectedPromptKeepsConfig ==
    [][ (/\ pc = "idle" /\ pc' = "idle"
         /\ op' = "set_translation_prompt"
         /\ ~HasTextMarker(text'))
        => (raised' = "ValueError" /\ UNCHANGED config) ]_vars

\* C3 witness: a template without {text} was rejected after an earlier set
\* had replaced the default template.
C3_Witness ==
    /\ op = "set_translation_prompt"
    /\ text = <<"Translate">>
    /\ raised = "ValueError"
    /\ translation_prompt = <<TextField, TextField>>

\* C4: process_video with a video_path that does not exist raises the
\* not-found error at once: no directory, temporary file or result file is
\* created and no client method is entered, whatever results_path and save.
C4_MissingVideoNoWrites ==
    [][ (/\ pc = "idle"
         /\ op' = "process_video"
         /\ video_path' = MissingVideo)
        => (/\ pc' = "idle"
            /\ raised' = "FileNotFoundError"
            /\ UNCHANGED <<dirs, files, temp_files>>
            /\ calls' = 0 /\ invoked' = {}) ]_vars

\* C4 witness: the call asked for saving into a results directory that did
\* not exist, and the directory still does not exist.
C4_Witness ==
    /\ op = "process_video" /\ pc = "idle"
    /\ video_path = MissingVideo
    /\ save /\ results_path = ResultsDir
    /\ raised = "FileNotFoundError"
    /\ ResultsDir \notin dirs

\* process_video returned after a transcription and a translation that the
\* remote services answered, saving into a results directory with no failed
\* write.
SavedRun ==
    /\ op = "process_video" /\ pc = "idle" /\ raised = ""
    /\ Persisting(save, results_path)
    /\ transcription \in TranscriptTexts
    /\ translation # None /\ translation[1] \in TranslationTexts
    /\ "save_error" \notin log

\* the two result files of the call hold the two texts
SavedFiles ==
    /\ files[ResultFile(results_path, Stem(video_path), "transcription")]
         = Some(transcription)
    /\ files[ResultFile(results_path, Stem(video_path), "translation")]
         = translation

\* C5 as stated: after such a run the two files hold the two texts and the
\* call returned the dictionary of the two texts and the video path.
C5_SavedAndReturned ==
    SavedRun =>
        /\ SavedFiles
        /\ result = ReturnDict(transcription, translation, video_path)

\* C5 amended: after such a run the two files hold the two texts; the call
\* returned the dictionary of the two texts and the video path when
\* return_results was true, and None when it was false.
C5_SavedAndReturnedIfAsked ==
    SavedRun =>
        /\ SavedFiles
        /\ (return_results
              => result = ReturnDict(transcription, translation, video_path))
        /\ (~return_results => result = ReturnNone)

\* C5 witness: a run that saved and returned the dictionary.
C5_Witness ==
    /\ SavedRun
    /\ return_results
    /\ transcription = <<"hello", "world">>
    /\ translation = Some(<<"adios">>)
    /\ files[ResultFile(ResultsDir, 1, "translation")] = Some(<<"adios">>)

\* process_video raised, or returned the sentinel of an exhausted
\* transcription.
VideoFailed ==
    \/ raised # ""
    \/ (result.ret = "dict" /\ result.transcription = TranscribeSentinel)

\* C6: the batch loop reaches the summary; it calls process_video for the
\* videos in their order, one call each; every call is counted once, a failed
\* one in error_count; and at the summary every video has been attempted and
\* processed_count + error_count is the number of videos.
C6_BatchCompletes ==
    /\ <>(bpc = "summary")
    /\ [](bpc = "summary" =>
            /\ idx = Len(video_files)
            /\ processed_count + error_count = Len(video_files))
    /\ [][ /\ (bpc = "loop" /\ bpc' = "wait"
                 => video_path' = video_files[idx + 1] /\ idx' = idx)
           /\ (bpc = "wait" /\ bpc' = "loop"
                 => /\ idx' = idx + 1
                    /\ processed_count' + error_count'
                         = processed_count + error_count + 1
                    /\ (VideoFailed => /\ error_count' = error_count + 1
                                       /\ processed_count' = processed_count))
           /\ (bpc' = "summary" => bpc \in {"loop", "summary"}) ]_vars

\* C6 witness: the summary of a batch in which one video was processed and
\* another failed.
C6_Witness ==
    /\ bpc = "summary"
    /\ Len(video_files) >= 2
    /\ processed_count >= 1
    /\ error_count >= 1

\* C7: when process_video is over and extract_audio had returned a temporary
\* audio path, the temporary file does not exist.
C7_TempAudioRemoved ==
    (op = "process_video" /\ pc = "idle" /\ audio_path # 0)
        => audio_path \notin temp_files

\* C7 witness: process_video ended with the exception of a translation
\* attempt, after extract_audio had returned a path.
C7_Witness ==
    /\ op = "process_video" /\ pc = "idle"
    /\ audio_path # 0
    /\ "translate_text" \in invoked
    /\ raised = "ValueError"

\* transcribe_audio gave process_video the sentinel, and process_video is over.
SentinelRun ==
    /\ op = "process_video" /\ pc = "idle" /\ raised = ""
    /\ transcription = TranscribeSentinel

\* C8 as stated: after the sentinel, translate_text and save_text were not
\* entered and the call returned the dictionary with the sentinel, a
\* translation of None and the video path.
C8_ShortCircuit ==
    SentinelRun =>
        /\ "translate_text" \notin invoked
        /\ "save_text" \notin invoked
        /\ translation = None
        /\ result = ReturnDict(TranscribeSentinel, None, video_path)

\* C8 amended: after the sentinel, translate_text and save_text were not
\* entered; the call returned the dictionary with the sentinel, a translation
\* of None and the video path when return_results was true, and None when it
\* was false.
C8_ShortCircuitIfAsked ==
    SentinelRun =>
        /\ "translate_text" \notin invoked
        /\ "save_text" \notin invoked
        /\ translation = None
        /\ (return_results
              => result = ReturnDict(TranscribeSentinel, None, video_path))
        /\ (~return_results => result = ReturnNone)

\* C8 witness: a saving run that ended with the sentinel after 11 failed
\* invocations, and returned the dictionary.
C8_Witness ==
    /\ SentinelRun
    /\ calls = 11
    /\ return_results
    /\ Persisting(save, results_path)

\* C9: a failed write of save_text reaches the caller of process_video as an
\* error, and the video is not reported as processed.
C9_WriteFailureSurfaces ==
    (op = "process_video" /\ pc = "idle" /\ "save_error" \in log)
        => (raised # "" /\ "processed_ok" \notin log)

\* The templates set_translation_prompt is specified to accept: exactly one
\* replacement field, the one for the source text.
SingleTextField(prompt) ==
    /\ TextFieldCount(prompt) = 1
    /\ \A k \in 1..Len(prompt) : prompt[k] # OtherField

\* C10: the template stored in the client has a single substitution point for
\* the source text, and renders for every text.
C10_StoredPromptRenders ==
    /\ SingleTextField(translation_prompt)
    /\ \A t \in TranscriptTexts : Format(translation_prompt, t).ok

\* A direct call of transcribe_audio or translate_text is over.
DirectCallOver ==
    /\ op \in {"transcribe_audio", "translate_text"}
    /\ pc = "idle"

\* C11: a direct call of transcribe_audio or translate_text never raises,
\* whatever the failures and their error signals: when it is over it has
\* returned a string, the text of the remote service or its own sentinel.
C11_NeverRaises ==
    DirectCallOver =>
        /\ raised = ""
        /\ result.ret = "str"
        /\ (op = "transcribe_audio"
              => result.text \in TranscriptTexts \cup {TranscribeSentinel})
        /\ (op = "translate_text"
              => result.text \in TranslationTexts \cup {TranslateSentinel})

\* C12: a step that ends process_video, by return or by raising, leaves no
\* temporary audio file that the call created: a call that ends in its first
\* step (the existence check, os.makedirs or extract_audio raised) has added
\* no temporary file, and a call that ends later has removed the file whose
\* path extract_audio returned.
C12_NoTempFileLeft ==
    [][ (op' = "process_video" /\ pc' = "idle")
        => IF pc = "idle"
           THEN temp_files' \subseteq temp_files
           ELSE audio_path \notin temp_files' ]_vars

\* process_video returned to the batch loop a dictionary whose translation
\* is the sentinel of an exhausted translate_text.
TranslationExhausted ==
    /\ op = "process_video" /\ pc = "idle" /\ raised = ""
    /\ result.ret = "dict"
    /\ result.translation = Some(TranslateSentinel)

\* C13: the batch loop adds a video to processed_count only when the
\* transcription and the translation it got are texts the remote services
\* answered; a video whose translation is the sentinel of an exhausted
\* translate_text is added to error_count.
C13_ProcessedMeansBothRemote ==
    [][ (bpc = "wait" /\ bpc' = "loop")
        => /\ (processed_count' = processed_count + 1
                 => /\ result.ret = "dict"
                    /\ result.transcription \in TranscriptTexts
                    /\ result.translation # None
                    /\ result.translation[1] \in TranslationTexts)
           /\ (TranslationExhausted
                 => /\ error_count' = error_count + 1
                    /\ processed_count' = processed_count) ]_vars

====
